---- MODULE Spec2Model ----
(***************************************************************************)
(* Model of the hot-shots StatsD client: the Transport class               *)
(* (lib/transport.js) and, of the StatsD class (lib/statsd.js), increment, *)
(* event, check and childClient.                                           *)
(*                                                                         *)
(* A string is a sequence of naturals.  The message of the n-th call, or   *)
(* the stat name in it, is the character n repeated, so every such         *)
(* character of a buffer or of a socket payload names the call it came     *)
(* from; the terminator '\n' is the character NL, and the characters of    *)
(* prefixes, suffixes and of the fields of a stat line are numbers from    *)
(* 100 on.                                                                 *)
(***************************************************************************)
EXTENDS Integers, Sequences, FiniteSets, TLC

\* ---------------------------------------------------------------- bounds
MaxClients    == 3      \* clients of a tree of SpecTree: the root and its descendants
FlowClients   == 2      \* clients of a tree of Spec and of SpecShutdown
MaxMsgs       == 2      \* send calls made in one behaviour
MaxBufferSize == 4      \* the non-zero value of options.maxBufferSize
MaxCloses     == 1      \* close() calls made in one behaviour of SpecShutdown
CloseCalls    == 2      \* close() calls made in one behaviour of SpecClose
BatchLen      == 2      \* stats in the array of a sendAll call
MaxSockErrors == 2      \* 'error' events a socket emits of its own
MaxUncaught   == 1      \* timer flushes whose exception nothing catches
MaxBatches    == 2      \* array calls made in one behaviour of SpecArray

\* ------------------------------------------------------ program constants
NL          == 0        \* '\n'
MaxAttempts == 10       \* intervalAttempts > 10
One         == 10       \* the number 1: sample rates and random draws are
                        \* counted in tenths
Colon       == 100      \* ':'
Bar         == 101      \* '|'
At          == 102      \* '@'
Dot         == 103      \* '.'
TypeCounter == 104      \* 'c', the type increment() passes

ClientIds == 1..MaxClients
MsgIds    == 1..MaxMsgs
Protocols == {"udp", "tcp", "unix_dgram"}
MsgLens   == {1, MaxBufferSize}
MaxWrites == MaxMsgs + MaxCloses + MaxUncaught

VARIABLES
  created,           \* the client objects constructed so far
  self,              \* per client: the fields set once by the constructor
  dnsError,          \* per client: this.dnsError is set
  dnsPending,        \* the root's dns.lookup has not called back yet
  intervalHandle,    \* per client: this.intervalHandle is set
  flushTimer,        \* clients whose setInterval flush timer is running
  timersStarted,     \* number of setInterval(onBufferFlushInterval) calls
  messagesInFlight,  \* per client: this.messagesInFlight
  mockBuffer,        \* per client: this.mockBuffer
  buffer,            \* per bufferHolder object: its .buffer string
  writes,            \* socket.send / socket.write calls, in issue order
  nextId,            \* id of the next send call
  enqueued,          \* the terminated messages appended by enqueue, in order
  withCallback,      \* the send calls that were given a callback
  cbLog,             \* per send call: the values its callback was invoked with
  closes,            \* the close() calls made so far
  socketCloseCalls,  \* per socket: number of socket.close()/destroy() calls
  sockState,         \* per socket: "open", "closing" (closed, 'close' not yet
                     \* emitted) or "closed" ('close' emitted)
  sockErrors,        \* number of 'error' events the sockets emitted of their own
  errorListener,     \* per socket: options.errorHandler listens for 'error'
  batches,           \* the sendAll calls made with an array of stats
  errHandled,        \* number of errorHandler invocations
  errEmitted,        \* number of socket.emit('error') calls by handleCallback
  thrown             \* number of exceptions that left the library's code

vars == <<created, self, dnsError, dnsPending, intervalHandle, flushTimer,
          timersStarted, messagesInFlight, mockBuffer, buffer, writes, nextId,
          enqueued, withCallback, cbLog, closes, socketCloseCalls, sockState,
          sockErrors, errorListener, batches, errHandled, errEmitted, thrown>>

\* ---------------------------------------------------------------- strings
Msg(id, len) == [k \in 1..len |-> id]

\* s.lastIndexOf(ch): the 0-based index of the last ch of s, -1 without one
RECURSIVE LastIndexOf(_, _)
LastIndexOf(s, ch) ==
  IF s = <<>> THEN -1
  ELSE IF s[Len(s)] = ch THEN Len(s) - 1
  ELSE LastIndexOf(SubSeq(s, 1, Len(s) - 1), ch)

\* the number of terminators in s
RECURSIVE CountNL(_)
CountNL(s) == IF s = <<>> THEN 0
              ELSE (IF Head(s) = NL THEN 1 ELSE 0) + CountNL(Tail(s))

RECURSIVE Concat(_)
Concat(ss) == IF ss = <<>> THEN <<>> ELSE Head(ss) \o Concat(Tail(ss))

IsPrefix(s, t) == Len(s) <= Len(t) /\ SubSeq(t, 1, Len(s)) = s

\* the send calls whose characters occur in s
IdsIn(s) == {s[k] : k \in 1..Len(s)} \ {NL}

\* the decimal digit d
Digit(d) == 110 + d

\* `${n}` for a number n of the model: n tenths, 0 <= n < 100
NumToString(n) ==
  IF n % 10 = 0 THEN <<Digit(n \div 10)>>
  ELSE <<Digit(n \div 10), Dot, Digit(n % 10)>>

\* an optional number: undefined, or the number n
Undefined == [isNumber |-> FALSE, value |-> 0]
Num(n)    == [isNumber |-> TRUE, value |-> n]

\* -------------------------------------------------------------- callbacks
NoCb         == [kind |-> "none",  ref |-> 0]
UserCb(id)   == [kind |-> "user",  ref |-> id]
DrainCb(k)   == [kind |-> "drain", ref |-> k]
OnSendCb(b)  == [kind |-> "onSend", ref |-> b]

\* the callback of send call id on client c that makes a metric call of its
\* own on c: () => client.increment(...), the line of len characters, without
\* callback; throws: the socket calls of the nested call throw
NestedCb(id, c, len, throws) ==
  [kind |-> "nested", ref |-> id, c |-> c, len |-> len, throws |-> throws]

\* the line of the metric call made by the callback of send call id
NestedMsg(id, len) == [k \in 1..len |-> MaxMsgs + id]

\* ------------------------------------------------------------ constructor
\* An error handler is named after the client whose options supplied it; 0 is
\* no handler.
NoClient == [isChild |-> FALSE, parent |-> 0, maxBufferSize |-> 0,
             mock |-> FALSE, protocol |-> "udp", errorHandler |-> 0,
             bufferHolder |-> 0, socket |-> 0,
             prefix |-> <<>>, suffix |-> <<>>, sampleRate |-> One,
             telegraf |-> FALSE, ownPrefix |-> <<>>, ownSuffix |-> <<>>]

\* mutant: a child gets a buffer holder of its own
ConstructorOwnBuffer(c, options) ==
  [isChild       |-> options.isChild,
   parent        |-> options.parent,
   maxBufferSize |-> options.maxBufferSize,
   mock          |-> options.mock,
   protocol      |-> options.protocol,
   errorHandler  |-> options.errorHandler,
   bufferHolder  |-> c,
   socket        |-> IF options.mock THEN 0
                     ELSE IF options.isChild THEN options.socket ELSE c,
   prefix        |-> options.prefix,
   suffix        |-> options.suffix,
   sampleRate    |-> IF options.sampleRate.isNumber
                     THEN options.sampleRate.value ELSE One,
   telegraf      |-> options.telegraf,
   ownPrefix     |-> options.ownPrefix,
   ownSuffix     |-> options.ownSuffix]

\* The fields the Transport constructor sets for client c from options.  A
\* bufferHolder object or a socket created by the constructor is named after
\* the client that created it.  parent, ownPrefix and ownSuffix keep what the
\* caller of the constructor was given: the client childClient was called on
\* and the prefix and suffix in the options of that call (for a root, of new
\* StatsD).
Constructor(c, options) ==
  [isChild       |-> options.isChild,
   parent        |-> options.parent,
   maxBufferSize |-> options.maxBufferSize,
   mock          |-> options.mock,
   protocol      |-> options.protocol,
   errorHandler  |-> options.errorHandler,
   bufferHolder  |-> IF options.isChild THEN options.bufferHolder ELSE c,
   socket        |-> IF options.mock THEN 0
                     ELSE IF options.isChild THEN options.socket ELSE c,
   prefix        |-> options.prefix,
   suffix        |-> options.suffix,
   sampleRate    |-> IF options.sampleRate.isNumber
                     THEN options.sampleRate.value ELSE One,
   telegraf      |-> options.telegraf,
   ownPrefix     |-> options.ownPrefix,
   ownSuffix     |-> options.ownSuffix]

\* mutant: a child starts a flush timer of its own
StartsTimerInChild(options) == options.maxBufferSize > 0

\* mutant: the timer does not depend on maxBufferSize
StartsTimerUnbuffered(options) == ~options.isChild

\* if (!options.isChild && this.maxBufferSize > 0) setInterval(...)
StartsTimer(options) == ~options.isChild /\ options.maxBufferSize > 0

\* mutant: the prefix of the parent comes first
ChildPrefixParentFirst(own, parentPrefix) == parentPrefix \o own

\* prefix: (options.prefix || '') + this.prefix
ChildPrefix(own, parentPrefix) == own \o parentPrefix

\* mutant: the suffix of the child comes first
ChildSuffixOwnFirst(parentSuffix, own) == own \o parentSuffix

\* suffix: this.suffix + (options.suffix || '')
ChildSuffix(parentSuffix, own) == parentSuffix \o own

\* mutant: a child does not take the cached error of its parent
ChildDnsErrorNever(options) == FALSE

\* if (options.isChild) { if (options.dnsError) this.dnsError = ... }
ChildDnsError(options) == options.isChild /\ options.dnsError

\* if (!options.isChild && options.errorHandler) this.socket.on('error', ...)
RegistersListener(options) ==
  ~options.mock /\ ~options.isChild /\ options.errorHandler # 0

\* the options of a root without prefix, suffix, sampleRate and telegraf
RootOptions(mbs, mock, proto, eh) ==
  [isChild |-> FALSE, parent |-> 0, maxBufferSize |-> mbs, mock |-> mock,
   protocol |-> proto, errorHandler |-> IF eh THEN 1 ELSE 0,
   bufferHolder |-> 0, socket |-> 0, dnsError |-> FALSE,
   prefix |-> <<>>, suffix |-> <<>>, sampleRate |-> Undefined,
   telegraf |-> FALSE, ownPrefix |-> <<>>, ownSuffix |-> <<>>]

\* the options o with a prefix, a suffix, a sampleRate and the telegraf flag
StatOptions(o, prefix, suffix, rate, telegraf) ==
  [o EXCEPT !.prefix = prefix, !.ownPrefix = prefix,
            !.suffix = suffix, !.ownSuffix = suffix,
            !.sampleRate = rate, !.telegraf = telegraf]

\* ------------------------------------------------- the mutable world state
\* The handlers below are functions from world to world, so that a handler
\* that calls another one synchronously is the composition of the two.  exc
\* says that an exception is propagating: the callers skip the rest of their
\* body.
World ==
  [buffer |-> buffer, writes |-> writes, mif |-> messagesInFlight,
   cbLog |-> cbLog, closes |-> closes, errHandled |-> errHandled,
   errEmitted |-> errEmitted, thrown |-> thrown, mockBuffer |-> mockBuffer,
   enqueued |-> enqueued, batches |-> batches,
   socketCloseCalls |-> socketCloseCalls, sockState |-> sockState,
   errorListener |-> errorListener, exc |-> FALSE]

Apply(W) ==
  /\ buffer' = W.buffer
  /\ writes' = W.writes
  /\ messagesInFlight' = W.mif
  /\ cbLog' = W.cbLog
  /\ closes' = W.closes
  /\ errHandled' = W.errHandled
  /\ errEmitted' = W.errEmitted
  /\ thrown' = W.thrown
  /\ mockBuffer' = W.mockBuffer
  /\ enqueued' = W.enqueued
  /\ batches' = W.batches
  /\ socketCloseCalls' = W.socketCloseCalls
  /\ sockState' = W.sockState
  /\ errorListener' = W.errorListener

\* mutant: the polling starts whatever the outcome of the drain flush
DrainDoneAnyway(cl, err) == [cl EXCEPT !.phase = "polling"]

\* close(): the callback handed to flushQueue, invoked with err
DrainDone(cl, err) ==
  IF err
  THEN [cl EXCEPT !.phase = "aborted",
                  !.log = IF cl.cb THEN Append(@, "err") ELSE @]
  ELSE [cl EXCEPT !.phase = "polling"]

\* sendAll: function onSend(error, bytes) of array call b, invoked with val.
\* "if (bytes) sentBytes += bytes" adds nothing: the completions either pass no
\* byte count (handleCallback, enqueue, the sampling skip) or pass 0 (a mock
\* send), so sentBytes keeps the 0 it starts with.
onSend(W, b, val) ==
  LET W1 == [W EXCEPT !.batches[b].completed = @ + 1]
      bt == W1.batches[b]
  IN IF bt.calledback THEN W1
     ELSE IF val \notin {"null", "zero", "undefined"}
     THEN IF bt.cb
          THEN [W1 EXCEPT !.batches[b].calledback = TRUE,
                          !.batches[b].log = Append(@, val)]
          ELSE IF self[bt.c].errorHandler # 0
          THEN [W1 EXCEPT !.batches[b].calledback = TRUE,
                          !.errHandled = @ + 1]
          ELSE W1
     ELSE IF bt.completed = bt.n /\ bt.cb
     THEN [W1 EXCEPT !.batches[b].log = Append(@, "null")]
     ELSE W1

\* a call of the callback function cb with first argument val; "zero" is the
\* call (null, 0) and "undefined" the call with no argument.  A nested
\* callback runs its metric call before it returns.
RECURSIVE _send(_, _, _, _, _)
Invoke(W, cb, val) ==
  CASE cb.kind = "user"   -> [W EXCEPT !.cbLog[cb.ref] = Append(@, val)]
    [] cb.kind = "nested" -> _send([W EXCEPT !.cbLog[cb.ref] = Append(@, val)],
                                   cb.c, NestedMsg(cb.ref, cb.len), NoCb, cb.throws)
    [] cb.kind = "drain"  -> [W EXCEPT !.closes[cb.ref] = DrainDone(@, val # "null")]
    [] cb.kind = "onSend" -> onSend(W, cb.ref, val)
    [] OTHER              -> W

\* _close(callback): handleErr(err) of close call k
handleErr(W, k) ==
  IF ~W.closes[k].handledError
  THEN LET W1 == [W EXCEPT !.closes[k].handledError = TRUE] IN
       IF W.closes[k].cb THEN [W1 EXCEPT !.closes[k].log = Append(@, "closeErr")]
       ELSE IF self[W.closes[k].c].errorHandler # 0
       THEN [W1 EXCEPT !.errHandled = @ + 1,
                       !.closes[k].log = Append(@, "handlerErr")]
       ELSE W1
  ELSE W

\* the _close of close call k has put its listeners on socket s
Listening(W, k, s) ==
  /\ W.closes[k].phase = "closed"
  /\ ~self[W.closes[k].c].mock
  /\ self[W.closes[k].c].socket = s

\* the handleErr listeners of socket s, from close call k on
RECURSIVE RunErrorListeners(_, _, _)
RunErrorListeners(W, s, k) ==
  IF k > Len(W.closes) THEN W
  ELSE RunErrorListeners(IF Listening(W, k, s) THEN handleErr(W, k) ELSE W,
                         s, k + 1)

\* the 'close' listeners of socket s, from close call k on
RECURSIVE RunCloseListeners(_, _, _)
RunCloseListeners(W, s, k) ==
  IF k > Len(W.closes) THEN W
  ELSE RunCloseListeners(
         IF Listening(W, k, s) /\ W.closes[k].cb /\ ~W.closes[k].handledError
         THEN [W EXCEPT !.closes[k].log = Append(@, "closed")] ELSE W,
         s, k + 1)

\* socket.emit('error', err) on socket s: the listeners the library has put on
\* the socket run; with no listener the emitter throws err
EmitError(W, s) ==
  IF ~W.errorListener[s] /\ \A k \in 1..Len(W.closes) : ~Listening(W, k, s)
  THEN [W EXCEPT !.thrown = @ + 1, !.exc = TRUE]
  ELSE RunErrorListeners(
         IF W.errorListener[s] THEN [W EXCEPT !.errHandled = @ + 1] ELSE W,
         s, 1)

\* mutant: the callback is told null whatever the outcome of the write
handleCallbackNoError(W, c, cb, err) ==
  Invoke([W EXCEPT !.mif[c] = @ - 1], cb, "null")

\* mutant: the completion handler leaves the in-flight counter as it is
handleCallbackNoDecrement(W, c, cb, err) ==
  IF cb.kind # "none" THEN Invoke(W, cb, IF err THEN "err" ELSE "null")
  ELSE IF err /\ self[c].errorHandler # 0
  THEN [W EXCEPT !.errHandled = @ + 1]
  ELSE W

\* sendMessage: const handleCallback = (err) => { ... }
handleCallback(W, c, cb, err) ==
  LET W1 == [W EXCEPT !.mif[c] = @ - 1] IN
  IF cb.kind # "none" THEN Invoke(W1, cb, IF err THEN "err" ELSE "null")
  ELSE IF err
  THEN IF self[c].errorHandler # 0
       THEN [W1 EXCEPT !.errHandled = @ + 1]
       ELSE EmitError([W1 EXCEPT !.errEmitted = @ + 1], self[c].socket)
  ELSE W1

\* mutant: a TCP message gets a terminator whatever its last character
MissingTerminatorAlways(message) == TRUE

\* message.lastIndexOf('\n') !== message.length - 1
MissingTerminator(message) == LastIndexOf(message, NL) # Len(message) - 1

\* the payload handed to the socket for message
Payload(c, message) ==
  IF self[c].protocol = "tcp" /\ MissingTerminator(message)
  THEN Append(message, NL) ELSE message

\* mutant: an empty message is written like any other
SkipsWriteMockOnly(c, message) == self[c].mock

\* if (message === '' || this.mock)
SkipsWrite(c, message) == message = <<>> \/ self[c].mock

\* sendMessage(message, callback); throws: the socket call throws.  The state
\* of a write is "pending", "ok" or "err" (its completion), "threw" (the socket
\* call threw and handleCallback reported it) or "uncaught" (it threw and the
\* exception left sendMessage).  message is the argument of the call, payload
\* what the socket is given, and dns records whether the client had a cached
\* error when it made the socket call.
sendMessage(W, c, message, cb, throws) ==
  IF SkipsWrite(c, message)
  THEN Invoke(W, cb, "null")
  ELSE LET w  == [payload |-> Payload(c, message), message |-> message,
                  by |-> c, cb |-> cb,
                  st |-> IF throws THEN "threw" ELSE "pending",
                  dns |-> dnsError[c]]
           W1 == [W EXCEPT !.mif[c] = @ + 1, !.writes = Append(@, w)]
           W2 == handleCallback(W1, c, cb, TRUE)
       IN IF throws
          THEN IF W2.exc THEN [W2 EXCEPT !.writes[Len(W1.writes)].st = "uncaught"]
               ELSE W2
          ELSE W1

\* what flushQueue leaves in the buffer
Flushed(b) == <<>>

\* flushQueue(callback)
flushQueue(W, c, cb, throws) ==
  LET h  == self[c].bufferHolder
      W1 == sendMessage(W, c, W.buffer[h], cb, throws)
  IN IF W1.exc THEN W1 ELSE [W1 EXCEPT !.buffer[h] = Flushed(@)]

\* mutant: only the content already buffered is measured
OverflowsOld(b, message, max) == Len(b) > max

\* the test of enqueue: the terminated message does not fit
Overflows(b, message, max) == Len(b) + Len(message) > max

\* this.bufferHolder.buffer += message
Appended(b, message) == b \o message

\* enqueue(message, callback); enqueued records the message when the buffer
\* takes it
enqueue(W, c, m, cb, throws) ==
  LET h       == self[c].bufferHolder
      message == Append(m, NL)
  IN IF Overflows(W.buffer[h], message, self[c].maxBufferSize)
     THEN LET W1 == flushQueue(W, c, cb, throws)
          IN IF W1.exc THEN W1
             ELSE [W1 EXCEPT !.buffer[h] = Appended(@, message),
                             !.enqueued = Append(@, message)]
     ELSE Invoke([W EXCEPT !.buffer[h] = Appended(@, message),
                           !.enqueued = Append(@, message)], cb, "null")

\* mutant: a cached error does not stop a send
ShortCircuitsNever(c) == FALSE

\* if (this.dnsError)
ShortCircuits(c) == dnsError[c]

\* _send(message, callback)
_send(W, c, m, cb, throws) ==
  IF ShortCircuits(c)
  THEN IF cb.kind # "none" THEN Invoke(W, cb, "dns")
       ELSE IF self[c].errorHandler # 0 THEN [W EXCEPT !.errHandled = @ + 1]
       ELSE [W EXCEPT !.thrown = @ + 1, !.exc = TRUE]
  ELSE IF ~self[c].mock
  THEN IF self[c].maxBufferSize = 0
       THEN sendMessage(W, c, m, cb, throws)
       ELSE enqueue(W, c, m, cb, throws)
  ELSE Invoke([W EXCEPT !.mockBuffer[c] = Append(@, m)], cb, "zero")

\* send(message, tags, callback) without tags on a client without globalTags:
\* mergedTags is empty
send(W, c, message, cb, throws) == _send(W, c, message, cb, throws)

\* mutant: a draw equal to the rate sends too
SampledInclusive(draw, r) == draw <= r

\* Math.random() < sampleRate
Sampled(draw, r) == draw < r

\* mutant: the default of the client wins over the rate of the call
EffectiveRateDefault(c, sampleRate) == self[c].sampleRate

\* sampleRate = typeof sampleRate === 'number' ? sampleRate : this.sampleRate
EffectiveRate(c, sampleRate) ==
  IF sampleRate.isNumber THEN sampleRate.value ELSE self[c].sampleRate

\* sendStat(stat, value, type, sampleRate, tags, callback) without tags; draw is
\* what Math.random() returns
sendStat(W, c, stat, value, type, sampleRate, draw, cb, throws) ==
  LET message == self[c].prefix \o stat \o self[c].suffix \o <<Colon>>
                   \o NumToString(value) \o <<Bar, type>>
      r       == EffectiveRate(c, sampleRate)
  IN IF r < One
     THEN IF Sampled(draw, r)
          THEN send(W, c, message \o <<Bar, At>> \o NumToString(r), cb, throws)
          ELSE Invoke(W, cb, "undefined")
     ELSE send(W, c, message, cb, throws)

\* mutant: events and service checks are sent under telegraf too
NotSupportedNever(c) == FALSE

\* if (this.telegraf), in event() and in check()
NotSupported(c) == self[c].telegraf

\* event() and check() under telegraf: the error 'Not supported by Telegraf /
\* InfluxDB' goes to callback, else to this.errorHandler, else it is thrown
rejectTelegraf(W, c, cb) ==
  IF cb.kind # "none" THEN Invoke(W, cb, "unsupported")
  ELSE IF self[c].errorHandler # 0 THEN [W EXCEPT !.errHandled = @ + 1]
  ELSE [W EXCEPT !.thrown = @ + 1, !.exc = TRUE]

\* the callback event() and check() use once the tags argument has been looked
\* at: typeof tags === 'function' && callback === undefined
CallbackOrTags(id, cbPos) == IF cbPos = "none" THEN NoCb ELSE UserCb(id)

\* _send reaches enqueue
Enqueues(c) == ~dnsError[c] /\ ~self[c].mock /\ self[c].maxBufferSize # 0

\* sendAll: stat.forEach(item => self.sendStat(item, ..., onSend)), from item i
\* on; item i is send call nextId + i - 1
RECURSIVE sendEach(_, _, _, _, _, _)
sendEach(W, c, b, i, lens, throws) ==
  IF i > BatchLen \/ W.exc THEN W
  ELSE sendEach(_send(W, c, Msg(nextId + i - 1, lens[i]), OnSendCb(b), throws[i]),
                c, b, i + 1, lens, throws)

\* sendAll: stat.forEach(item => self.sendStat(item, value, type, sampleRate,
\* tags, onSend)) for an array of n stats, from item i on; item i is send call
\* nextId + i - 1, a stat name of one character, and draws[i] is what
\* Math.random() returns for it
RECURSIVE sendStatEach(_, _, _, _, _, _, _, _)
sendStatEach(W, c, b, i, n, sampleRate, draws, throws) ==
  IF i > n \/ W.exc THEN W
  ELSE sendStatEach(sendStat(W, c, Msg(nextId + i - 1, 1), One, TypeCounter,
                             sampleRate, draws[i], OnSendCb(b), throws[i]),
                    c, b, i + 1, n, sampleRate, draws, throws)

\* ------------------------------------------------------------------- Init
\* the state after new StatsD(options), the options drawn from optionsSet
InitOptions(optionsSet, cacheDnsSet) ==
  /\ \E options \in optionsSet, cacheDns \in cacheDnsSet :
       /\ self = [c \in ClientIds |-> IF c = 1 THEN Constructor(1, options)
                                       ELSE NoClient]
       /\ intervalHandle = [c \in ClientIds |-> c = 1 /\ StartsTimer(options)]
       /\ flushTimer = IF StartsTimer(options) THEN {1} ELSE {}
       /\ timersStarted = IF StartsTimer(options) THEN 1 ELSE 0
       /\ errorListener = [s \in ClientIds |-> s = 1 /\ RegistersListener(options)]
       /\ dnsPending = cacheDns
  /\ created = {1}
  /\ dnsError = [c \in ClientIds |-> FALSE]
  /\ messagesInFlight = [c \in ClientIds |-> 0]
  /\ mockBuffer = [c \in ClientIds |-> <<>>]
  /\ buffer = [h \in ClientIds |-> <<>>]
  /\ writes = <<>>
  /\ nextId = 1
  /\ enqueued = <<>>
  /\ withCallback = {}
  /\ cbLog = [i \in MsgIds |-> <<>>]
  /\ closes = <<>>
  /\ socketCloseCalls = [s \in ClientIds |-> 0]
  /\ sockState = [s \in ClientIds |-> "open"]
  /\ sockErrors = 0
  /\ batches = <<>>
  /\ errHandled = 0
  /\ errEmitted = 0
  /\ thrown = 0

\* the state after new StatsD(options), the options drawn from the given sets
InitWith(mbsSet, mockSet, protoSet, ehSet, cacheDnsSet) ==
  InitOptions({RootOptions(mbs, mock, proto, eh) :
                 mbs \in mbsSet, mock \in mockSet, proto \in protoSet, eh \in ehSet},
              cacheDnsSet)

\* ---------------------------------------------------------------- actions
\* a metric call on client c that reaches _send with a message of len chars
Send(c, len, withCb, throws) ==
  /\ c \in created
  /\ nextId <= MaxMsgs
  /\ Apply(_send(World, c, Msg(nextId, len),
                IF withCb THEN UserCb(nextId) ELSE NoCb, throws))
  /\ nextId' = nextId + 1
  /\ withCallback' = IF withCb THEN withCallback \cup {nextId} ELSE withCallback
  /\ UNCHANGED <<created, self, dnsError, dnsPending, intervalHandle,
                 flushTimer, timersStarted, sockErrors>>

\* increment(stat, 1, sampleRate, undefined, callback) on client c with one
\* stat of len chars: sendAll hands it to sendStat
SendStat(c, len, sampleRate, draw, withCb, throws) ==
  /\ c \in created
  /\ nextId <= MaxMsgs
  /\ Apply(sendStat(World, c, Msg(nextId, len), One, TypeCounter, sampleRate, draw,
                    IF withCb THEN UserCb(nextId) ELSE NoCb, throws))
  /\ nextId' = nextId + 1
  /\ withCallback' = IF withCb THEN withCallback \cup {nextId} ELSE withCallback
  /\ UNCHANGED <<created, self, dnsError, dnsPending, intervalHandle,
                 flushTimer, timersStarted, sockErrors>>

\* where a call of event() or check() has its callback function: nowhere, in
\* the tags argument, or in the callback argument
CallbackPositions == {"none", "tags", "callback"}

\* event(title, text, options, tags, callback) on client c; the line of the
\* event is len characters that name the call
Event(c, len, cbPos, throws) ==
  /\ c \in created
  /\ nextId <= MaxMsgs
  /\ IF NotSupported(c)
     THEN Apply(rejectTelegraf(World, c,
                               IF cbPos = "callback" THEN UserCb(nextId) ELSE NoCb))
     ELSE Apply(send(World, c, Msg(nextId, len), CallbackOrTags(nextId, cbPos), throws))
  /\ nextId' = nextId + 1
  /\ withCallback' = IF cbPos # "none" THEN withCallback \cup {nextId} ELSE withCallback
  /\ UNCHANGED <<created, self, dnsError, dnsPending, intervalHandle,
                 flushTimer, timersStarted, sockErrors>>

\* check(name, status, options, tags, callback) on client c; line is
\* check.join('|'), whose last part is options.message as the caller wrote it
CheckLine(c, line, cbPos, throws) ==
  /\ c \in created
  /\ nextId <= MaxMsgs
  /\ IF NotSupported(c)
     THEN Apply(rejectTelegraf(World, c,
                               IF cbPos = "callback" THEN UserCb(nextId) ELSE NoCb))
     ELSE Apply(_send(World, c, line, CallbackOrTags(nextId, cbPos), throws))
  /\ nextId' = nextId + 1
  /\ withCallback' = IF cbPos # "none" THEN withCallback \cup {nextId} ELSE withCallback
  /\ UNCHANGED <<created, self, dnsError, dnsPending, intervalHandle,
                 flushTimer, timersStarted, sockErrors>>

\* check(name, status, options, tags, callback) on client c; the line of the
\* service check is len characters that name the call
Check(c, len, cbPos, throws) == CheckLine(c, Msg(nextId, len), cbPos, throws)

\* a metric call on client c that reaches _send with a message of len chars
\* and a callback that makes a metric call on c
SendNested(c, len, nestedLen, throws, nestedThrows) ==
  /\ c \in created
  /\ nextId <= MaxMsgs
  /\ Apply(_send(World, c, Msg(nextId, len),
                NestedCb(nextId, c, nestedLen, nestedThrows), throws))
  /\ nextId' = nextId + 1
  /\ withCallback' = withCallback \cup {nextId}
  /\ UNCHANGED <<created, self, dnsError, dnsPending, intervalHandle,
                 flushTimer, timersStarted, sockErrors>>

\* the first metric call of a behaviour
FirstSend(c, len, withCb, throws) ==
  /\ nextId = 1
  /\ Send(c, len, withCb, throws)

\* a metric call on client c with an array of BatchLen stats: sendAll
SendAll(c, lens, withCb, throws) ==
  /\ c \in created
  /\ nextId + BatchLen - 1 <= MaxMsgs
  /\ LET b  == Len(batches) + 1
         bt == [c |-> c, cb |-> withCb, n |-> BatchLen, completed |-> 0,
                calledback |-> FALSE, sentBytes |-> 0, log |-> <<>>]
         W0 == [World EXCEPT !.batches = Append(@, bt)]
     IN Apply(sendEach(W0, c, b, 1, lens, throws))
  /\ nextId' = nextId + BatchLen
  /\ UNCHANGED <<created, self, dnsError, dnsPending, intervalHandle,
                 flushTimer, timersStarted, withCallback, sockErrors>>

\* increment(stat, 1, sampleRate, undefined, callback) on client c with an array
\* of n stats, the empty array included: sendAll
SendAllArray(c, n, sampleRate, draws, withCb, throws) ==
  /\ c \in created
  /\ nextId + n - 1 <= MaxMsgs
  /\ Len(batches) < MaxBatches
  /\ LET b  == Len(batches) + 1
         bt == [c |-> c, cb |-> withCb, n |-> n, completed |-> 0,
                calledback |-> FALSE, sentBytes |-> 0, log |-> <<>>]
         W0 == [World EXCEPT !.batches = Append(@, bt)]
     IN Apply(sendStatEach(W0, c, b, 1, n, sampleRate, draws, throws))
  /\ nextId' = nextId + n
  /\ UNCHANGED <<created, self, dnsError, dnsPending, intervalHandle,
                 flushTimer, timersStarted, withCallback, sockErrors>>

\* the socket calls whose exception left sendMessage
Uncaught == {i \in 1..Len(writes) : writes[i].st = "uncaught"}

\* onBufferFlushInterval()
TimerTick(c, throws) ==
  /\ c \in flushTimer
  /\ throws => Cardinality(Uncaught) < MaxUncaught
  /\ Apply(flushQueue(World, c, NoCb, throws))
  /\ UNCHANGED <<created, self, dnsError, dnsPending, intervalHandle,
                 flushTimer, timersStarted, nextId, withCallback, sockErrors>>

\* the socket calls handleCallback for write i
WriteComplete(i, err) ==
  /\ i \in 1..Len(writes)
  /\ writes[i].st = "pending"
  /\ Apply(handleCallback([World EXCEPT !.writes[i].st = IF err THEN "err" ELSE "ok"],
                          writes[i].by, writes[i].cb, err))
  /\ UNCHANGED <<created, self, dnsError, dnsPending, intervalHandle,
                 flushTimer, timersStarted, nextId, withCallback, sockErrors>>

\* childClient(options) on client p, the options holding prefix, suffix and,
\* if optErrorHandler, an errorHandler; the new client is c
ChildClientNamed(p, c, optErrorHandler, prefix, suffix) ==
  /\ p \in created
  /\ c \notin created
  /\ \A d \in ClientIds : d < c => d \in created
  /\ LET options == [isChild |-> TRUE, parent |-> p,
                     socket |-> self[p].socket,
                     bufferHolder |-> self[p].bufferHolder,
                     dnsError |-> dnsError[p],
                     errorHandler |-> IF optErrorHandler THEN c
                                      ELSE self[p].errorHandler,
                     prefix |-> ChildPrefix(prefix, self[p].prefix),
                     suffix |-> ChildSuffix(self[p].suffix, suffix),
                     mock |-> self[p].mock,
                     maxBufferSize |-> self[p].maxBufferSize,
                     telegraf |-> self[p].telegraf,
                     protocol |-> self[p].protocol,
                     sampleRate |-> Undefined,
                     ownPrefix |-> prefix, ownSuffix |-> suffix]
     IN /\ self' = [self EXCEPT ![c] = Constructor(c, options)]
        /\ intervalHandle' = [intervalHandle EXCEPT ![c] = StartsTimer(options)]
        /\ flushTimer' = IF StartsTimer(options) THEN flushTimer \cup {c} ELSE flushTimer
        /\ timersStarted' = IF StartsTimer(options) THEN timersStarted + 1 ELSE timersStarted
        /\ dnsError' = [dnsError EXCEPT ![c] = ChildDnsError(options)]
  /\ created' = created \cup {c}
  /\ messagesInFlight' = [messagesInFlight EXCEPT ![c] = 0]
  /\ UNCHANGED <<dnsPending, mockBuffer, buffer, writes, nextId, enqueued, withCallback, cbLog,
                 closes, socketCloseCalls, sockState, sockErrors, errorListener,
                 batches, errHandled, errEmitted, thrown>>

\* childClient(options) with neither prefix nor suffix in the options
ChildClient(p, c, optErrorHandler) ==
  ChildClientNamed(p, c, optErrorHandler, <<>>, <<>>)

\* the callback of the root's dns.lookup
DnsLookupDone(err) ==
  /\ dnsPending
  /\ dnsPending' = FALSE
  /\ dnsError' = [dnsError EXCEPT ![1] = err]
  /\ UNCHANGED <<created, self, intervalHandle, flushTimer, timersStarted,
                 messagesInFlight, mockBuffer, buffer, writes, nextId, enqueued,
                 withCallback, cbLog, closes, socketCloseCalls, sockState,
                 sockErrors, errorListener, batches, errHandled, errEmitted,
                 thrown>>

\* mutant: close() leaves the flush timer running
AfterNoClearInterval(c) == flushTimer

\* the timers close() leaves running
AfterClearInterval(c) == IF intervalHandle[c] THEN flushTimer \ {c} ELSE flushTimer

\* close(callback) on client c, up to the return of flushQueue
CloseCall(c, withCb, throws) ==
  /\ c \in created
  /\ flushTimer' = AfterClearInterval(c)
  /\ LET k  == Len(closes) + 1
         cl == [c |-> c, cb |-> withCb, phase |-> "draining", attempts |-> 0,
                handledError |-> FALSE, log |-> <<>>]
         W0 == [World EXCEPT !.closes = Append(@, cl)]
     IN Apply(flushQueue(W0, c, DrainCb(k), throws))
  /\ UNCHANGED <<created, self, dnsError, dnsPending, intervalHandle,
                 timersStarted, nextId, withCallback, sockErrors>>

\* close(callback) on client c
Close(c, withCb, throws) ==
  /\ Len(closes) < MaxCloses
  /\ CloseCall(c, withCb, throws)

\* close(callback) on client c, in SpecClose
CloseAgain(c, withCb, throws) ==
  /\ Len(closes) < CloseCalls
  /\ CloseCall(c, withCb, throws)

\* this.socket.removeListener('error', this.errorHandler) takes the root's
\* listener off the socket
RemovesListener(c) ==
  /\ self[c].errorHandler # 0
  /\ self[c].errorHandler = self[self[c].socket].errorHandler

\* _close(callback) for close call k; throws: socket.close()/destroy() throws
_close(W, k, throws) ==
  LET c  == W.closes[k].c
      s  == self[c].socket
      W1 == [W EXCEPT !.closes[k].phase = "closed"]
  IN IF ~self[c].mock
     THEN LET W2 == [W1 EXCEPT !.errorListener[s] = @ /\ ~RemovesListener(c),
                               !.socketCloseCalls[s] = @ + 1]
          IN IF throws THEN handleErr(W2, k)
             ELSE [W2 EXCEPT !.sockState[s] = IF @ = "open" THEN "closing" ELSE @]
     ELSE IF W.closes[k].cb THEN [W1 EXCEPT !.closes[k].log = Append(@, "null")]
     ELSE W1

\* mutant: the counter is given up at the tenth attempt
ExceededEarly(n) == n >= MaxAttempts

\* if (intervalAttempts > 10)
Exceeded(n) == n > MaxAttempts

\* close(): one run of the waitForMessages interval of close call k
PollTick(k, throws) ==
  /\ k \in 1..Len(closes)
  /\ closes[k].phase = "polling"
  /\ LET c  == closes[k].c
         n  == closes[k].attempts + 1
         W1 == [World EXCEPT !.closes[k].attempts = n]
         W2 == IF Exceeded(n) THEN [W1 EXCEPT !.mif[c] = 0] ELSE W1
     IN IF W2.mif[c] <= 0
        THEN Apply(_close(W2, k, throws))
        ELSE Apply(W2)
  /\ UNCHANGED <<created, self, dnsError, dnsPending, intervalHandle,
                 flushTimer, timersStarted, nextId, withCallback, sockErrors>>

\* the socket s emits 'close', once, after a close()/destroy() that returned
SocketCloseEvent(s) ==
  /\ s \in created /\ ~self[s].isChild /\ ~self[s].mock
  /\ sockState[s] = "closing"
  /\ Apply(RunCloseListeners([World EXCEPT !.sockState[s] = "closed"], s, 1))
  /\ UNCHANGED <<created, self, dnsError, dnsPending, intervalHandle,
                 flushTimer, timersStarted, nextId, withCallback, sockErrors>>

\* the socket s emits 'error' of its own; it emits nothing after 'close'
SocketErrorEvent(s) ==
  /\ s \in created /\ ~self[s].isChild /\ ~self[s].mock
  /\ sockState[s] # "closed"
  /\ sockErrors < MaxSockErrors
  /\ sockErrors' = sockErrors + 1
  /\ Apply(EmitError(World, s))
  /\ UNCHANGED <<created, self, dnsError, dnsPending, intervalHandle,
                 flushTimer, timersStarted, nextId, withCallback>>

\* ---------------------------------------------------------- specifications
\* Spec: the send path of a tree of clients: metric calls, the flush timer
\* and the completion of socket writes.
Init == InitWith({0, MaxBufferSize}, BOOLEAN, {"udp", "tcp"}, {FALSE}, {FALSE})

Next ==
  \/ \E c \in 1..FlowClients, len \in MsgLens, withCb \in BOOLEAN, throws \in BOOLEAN :
       Send(c, len, withCb, throws)
  \/ \E c \in ClientIds, throws \in BOOLEAN : TimerTick(c, throws)
  \/ \E i \in 1..MaxWrites, err \in BOOLEAN : WriteComplete(i, err)
  \/ \E p \in ClientIds, c \in 1..FlowClients : ChildClient(p, c, FALSE)

Spec == Init /\ [][Next]_vars

\* SpecShutdown: the send path together with close().
InitShutdown == InitWith({0, MaxBufferSize}, BOOLEAN, {"udp", "tcp"}, {FALSE}, {FALSE})

NextShutdown ==
  \/ \E c \in 1..FlowClients, len \in MsgLens, withCb \in BOOLEAN, throws \in BOOLEAN :
       Send(c, len, withCb, throws)
  \/ \E c \in ClientIds, throws \in BOOLEAN : TimerTick(c, throws)
  \/ \E i \in 1..MaxWrites, err \in BOOLEAN : WriteComplete(i, err)
  \/ \E p \in ClientIds, c \in 1..FlowClients : ChildClient(p, c, FALSE)
  \/ \E c \in ClientIds, withCb \in BOOLEAN, throws \in BOOLEAN :
       Close(c, withCb, throws)
  \/ \E k \in 1..MaxCloses, throws \in BOOLEAN : PollTick(k, throws)

SpecShutdown == InitShutdown /\ [][NextShutdown]_vars

\* SpecTree: trees of up to MaxClients clients, children of children included.
InitTree == InitWith({0, MaxBufferSize}, BOOLEAN, {"udp"}, {FALSE}, {FALSE})

NextTree ==
  \/ \E c \in ClientIds, len \in MsgLens, withCb \in BOOLEAN :
       Send(c, len, withCb, FALSE)
  \/ \E c \in ClientIds : TimerTick(c, FALSE)
  \/ \E i \in 1..MaxWrites, err \in BOOLEAN : WriteComplete(i, err)
  \/ \E p \in ClientIds, c \in ClientIds : ChildClient(p, c, FALSE)

SpecTree == InitTree /\ [][NextTree]_vars

\* SpecClose: one client that makes one send and is closed up to CloseCalls
\* times, with the 'error' and 'close' events of its socket.
InitClose == InitWith({0, MaxBufferSize}, {FALSE}, {"udp"}, BOOLEAN, {FALSE})

NextClose ==
  \/ \E withCb \in BOOLEAN, throws \in BOOLEAN : FirstSend(1, 1, withCb, throws)
  \/ \E i \in 1..MaxMsgs + CloseCalls, err \in BOOLEAN : WriteComplete(i, err)
  \/ \E withCb \in BOOLEAN, throws \in BOOLEAN : CloseAgain(1, withCb, throws)
  \/ \E k \in 1..CloseCalls, throws \in BOOLEAN : PollTick(k, throws)
  \/ SocketCloseEvent(1)
  \/ SocketErrorEvent(1)

SpecClose == InitClose /\ [][NextClose]_vars

\* SpecLive: one buffering client, its sends and one close(), under the
\* scheduling of the event loop: an interval that is set keeps firing, and the
\* socket calls back for every write it accepted.
InitLive == InitWith({MaxBufferSize}, {FALSE}, {"udp", "tcp"}, BOOLEAN, {FALSE})

NextLive ==
  \/ \E len \in MsgLens, withCb \in BOOLEAN, throws \in BOOLEAN :
       Send(1, len, withCb, throws)
  \/ \E throws \in BOOLEAN : TimerTick(1, throws)
  \/ \E i \in 1..MaxWrites, err \in BOOLEAN : WriteComplete(i, err)
  \/ \E withCb \in BOOLEAN, throws \in BOOLEAN : Close(1, withCb, throws)
  \/ \E k \in 1..MaxCloses, throws \in BOOLEAN : PollTick(k, throws)

SpecLive ==
  /\ InitLive
  /\ [][NextLive]_vars
  /\ WF_vars(\E k \in 1..MaxCloses, throws \in BOOLEAN : PollTick(k, throws))
  /\ WF_vars(\E i \in 1..MaxWrites, err \in BOOLEAN : WriteComplete(i, err))

\* SpecErrors: the error channels of the send path: single and array sends on
\* a root and a child, with and without errorHandler, and the cached dns error.
InitErrors == InitWith({0, MaxBufferSize}, BOOLEAN, {"udp"}, BOOLEAN, BOOLEAN)

NextErrors ==
  \/ \E c \in 1..FlowClients, len \in MsgLens, withCb \in BOOLEAN, throws \in BOOLEAN :
       Send(c, len, withCb, throws)
  \/ \E c \in 1..FlowClients, lens \in [1..BatchLen -> MsgLens],
        withCb \in BOOLEAN, throws \in [1..BatchLen -> BOOLEAN] :
       SendAll(c, lens, withCb, throws)
  \/ \E c \in ClientIds, throws \in BOOLEAN : TimerTick(c, throws)
  \/ \E i \in 1..MaxWrites, err \in BOOLEAN : WriteComplete(i, err)
  \/ \E p \in ClientIds, c \in 1..FlowClients, eh \in BOOLEAN : ChildClient(p, c, eh)
  \/ \E err \in BOOLEAN : DnsLookupDone(err)

SpecErrors == InitErrors /\ [][NextErrors]_vars

\* SpecDns: a tree whose root was constructed with cacheDns: children created
\* and messages sent before and after the callback of dns.lookup.
InitDns == InitWith({0, MaxBufferSize}, {FALSE}, {"udp"}, {FALSE}, {TRUE})

NextDns ==
  \/ \E c \in 1..FlowClients, len \in MsgLens, withCb \in BOOLEAN :
       Send(c, len, withCb, FALSE)
  \/ \E c \in ClientIds : TimerTick(c, FALSE)
  \/ \E i \in 1..MaxWrites, err \in BOOLEAN : WriteComplete(i, err)
  \/ \E p \in ClientIds, c \in 1..FlowClients : ChildClient(p, c, FALSE)
  \/ \E err \in BOOLEAN : DnsLookupDone(err)

SpecDns == InitDns /\ [][NextDns]_vars

\* SpecMock: a tree whose root was constructed with mock: true.
InitMock == InitWith({0, MaxBufferSize}, {TRUE}, {"udp"}, BOOLEAN, BOOLEAN)

NextMock ==
  \/ \E c \in 1..FlowClients, len \in MsgLens, withCb \in BOOLEAN :
       Send(c, len, withCb, FALSE)
  \/ \E c \in ClientIds : TimerTick(c, FALSE)
  \/ \E p \in ClientIds, c \in 1..FlowClients, eh \in BOOLEAN : ChildClient(p, c, eh)
  \/ \E err \in BOOLEAN : DnsLookupDone(err)
  \/ \E c \in ClientIds, withCb \in BOOLEAN : Close(c, withCb, FALSE)
  \/ \E k \in 1..MaxCloses : PollTick(k, FALSE)

SpecMock == InitMock /\ [][NextMock]_vars

\* the prefix and suffix given in options: neither, "a." with ".x", "s." with
\* ".y", and ".y" alone
Names == {[prefix |-> <<>>, suffix |-> <<>>],
          [prefix |-> <<120, Dot>>, suffix |-> <<Dot, 122>>],
          [prefix |-> <<121, Dot>>, suffix |-> <<Dot, 123>>],
          [prefix |-> <<>>, suffix |-> <<Dot, 123>>]}

\* SpecNaming: trees of clients with prefixes and suffixes, children of
\* children included, and the metric lines they emit.
InitNaming ==
  InitOptions({StatOptions(RootOptions(0, mock, "udp", FALSE), n.prefix, n.suffix,
                           Undefined, FALSE) :
                 mock \in BOOLEAN, n \in Names},
              {FALSE})

NextNaming ==
  \/ \E c \in ClientIds : SendStat(c, 1, Undefined, 0, FALSE, FALSE)
  \/ \E p \in ClientIds, c \in ClientIds, n \in Names :
       ChildClientNamed(p, c, FALSE, n.prefix, n.suffix)

SpecNaming == InitNaming /\ [][NextNaming]_vars

\* the sample rates given in options and in calls, and the values Math.random()
\* returns, in tenths
Rates == {0, 5, One, 15}
Draws == {0, 3, 6}
OptionalRates == {Undefined} \cup {Num(r) : r \in Rates}

\* SpecSample: stat calls with and without a sample rate of their own, on a
\* root with and without a default rate and on its child.
InitSample ==
  InitOptions({StatOptions(RootOptions(mbs, mock, "udp", FALSE), <<>>, <<>>,
                           rate, FALSE) :
                 mbs \in {0, MaxBufferSize}, mock \in BOOLEAN,
                 rate \in {Undefined, Num(5)}},
              {FALSE})

NextSample ==
  \/ \E c \in 1..FlowClients, rate \in OptionalRates, draw \in Draws, withCb \in BOOLEAN :
       SendStat(c, 1, rate, draw, withCb, FALSE)
  \/ \E c \in ClientIds : TimerTick(c, FALSE)
  \/ \E i \in 1..MaxWrites, err \in BOOLEAN : WriteComplete(i, err)
  \/ \E p \in ClientIds, c \in 1..FlowClients : ChildClient(p, c, FALSE)

SpecSample == InitSample /\ [][NextSample]_vars

\* SpecTelegraf: events and service checks on trees with and without the
\* telegraf flag, with and without errorHandler.
InitTelegraf ==
  InitOptions({StatOptions(RootOptions(mbs, mock, "udp", eh), <<>>, <<>>,
                           Undefined, telegraf) :
                 mbs \in {0, MaxBufferSize}, mock \in BOOLEAN, eh \in BOOLEAN,
                 telegraf \in BOOLEAN},
              {FALSE})

NextTelegraf ==
  \/ \E c \in 1..FlowClients, cbPos \in CallbackPositions : Event(c, 1, cbPos, FALSE)
  \/ \E c \in 1..FlowClients, cbPos \in CallbackPositions : Check(c, 1, cbPos, FALSE)
  \/ \E c \in ClientIds : TimerTick(c, FALSE)
  \/ \E i \in 1..MaxWrites, err \in BOOLEAN : WriteComplete(i, err)
  \/ \E p \in ClientIds, c \in 1..FlowClients, eh \in BOOLEAN : ChildClient(p, c, eh)

SpecTelegraf == InitTelegraf /\ [][NextTelegraf]_vars

\* the outcomes of Math.random() for the stats of an array: with the rate 0.5
\* the draw 0.3 sends and the draw 0.6 skips
ArrayDraws == [1..BatchLen -> {3, 6}]

\* SpecArray: metric calls with an array of 0 to BatchLen stats, sampled or not,
\* on an unbuffered, a buffered and a mock root; the socket calls throw or
\* complete with or without error, in any order.
InitArray ==
  InitWith({0, MaxBufferSize, 3 * MaxBufferSize}, BOOLEAN, {"udp"}, {FALSE}, {FALSE})

NextArray ==
  \/ \E n \in 0..BatchLen, rate \in {Undefined, Num(5)}, draws \in ArrayDraws,
        withCb \in BOOLEAN, throws \in [1..BatchLen -> BOOLEAN] :
       SendAllArray(1, n, rate, draws, withCb, throws)
  \/ TimerTick(1, FALSE)
  \/ \E i \in 1..MaxWrites, err \in BOOLEAN : WriteComplete(i, err)

SpecArray == InitArray /\ [][NextArray]_vars

\* the lines of the service check that is send call id: its message option is
\* absent, or ends with '\n', or holds a '\n' before its end, or ends with two
CheckLines(id) == {<<id>>, <<id, NL>>, <<id, NL, id>>, <<id, NL, NL>>}

\* SpecFraming: service checks whose line may hold terminators, on unbuffered
\* and buffered roots of each protocol.
InitFraming == InitWith({0, MaxBufferSize}, {FALSE}, Protocols, {FALSE}, {FALSE})

NextFraming ==
  \/ \E line \in CheckLines(nextId), cbPos \in {"none", "callback"}, throws \in BOOLEAN :
       CheckLine(1, line, cbPos, throws)
  \/ TimerTick(1, FALSE)
  \/ \E i \in 1..MaxWrites, err \in BOOLEAN : WriteComplete(i, err)

SpecFraming == InitFraming /\ [][NextFraming]_vars

\* SpecNested: metric calls whose callback makes a metric call, next to plain
\* ones, on an unbuffered and a buffered root; the socket calls throw or
\* complete with or without error.
InitNested == InitWith({0, MaxBufferSize}, {FALSE}, {"udp"}, BOOLEAN, {FALSE})

NextNested ==
  \/ \E len \in MsgLens, nestedLen \in MsgLens, throws \in BOOLEAN, nestedThrows \in BOOLEAN :
       SendNested(1, len, nestedLen, throws, nestedThrows)
  \/ \E len \in MsgLens : Send(1, len, FALSE, FALSE)
  \/ TimerTick(1, FALSE)
  \/ \E i \in 1..MaxWrites, err \in BOOLEAN : WriteComplete(i, err)

SpecNested == InitNested /\ [][NextNested]_vars

\* ----------------------------------------------------------------- claims
\* the bytes handed to the socket, in write-issue order
WrittenBytes == Concat([i \in 1..Len(writes) |-> writes[i].payload])

\* m occurs whole in s
Contains(s, m) ==
  \E k \in 1..Len(s) : k + Len(m) - 1 <= Len(s) /\ SubSeq(s, k, k + Len(m) - 1) = m

\* the step is a call of enqueue that returned: it appended its message
EnqueueStep == Len(enqueued') = Len(enqueued) + 1

\* the terminated message that the enqueue of the step appended
EnqueuedNow == enqueued'[Len(enqueued')]

\* the step is a metric call that reaches enqueue, whether enqueue returns or
\* an exception leaves it: the clients of a tree have the mock flag and the
\* maxBufferSize of the root, and none has a cached DNS error
EnqueueCall ==
  /\ nextId' = nextId + 1
  /\ ~self[1].mock /\ self[1].maxBufferSize > 0
  /\ \A c \in created : ~dnsError[c]

\* C1: in a tree with maxBufferSize > 0 the bytes handed to the socket, in
\* write-issue order, are at every moment a prefix of the terminated messages
\* in enqueue order, whichever clients of the tree made the calls.
C1_FlushOrdering ==
  self[1].maxBufferSize > 0 => IsPrefix(WrittenBytes, Concat(enqueued))

\* C2: enqueue(m) flushes iff len(buffer) + len(m) + 1 > maxBufferSize; then
\* the write carries exactly the old content (no write if it is empty) and the
\* buffer becomes m and its terminator; otherwise the buffer is the old content
\* followed by m and its terminator, and no write is issued.  m is the message
\* of the call, of one of the lengths a call can have.
C2_FlushBoundary ==
  [][EnqueueCall =>
       \E len \in MsgLens :
          LET old == buffer[1]
              m   == Msg(nextId, len)
          IN IF Len(old) + Len(m) + 1 > self[1].maxBufferSize
             THEN /\ buffer'[1] = Append(m, NL)
                  /\ IF old = <<>> THEN writes' = writes
                     ELSE /\ Len(writes') = Len(writes) + 1
                          /\ SubSeq(writes', 1, Len(writes)) = writes
                          /\ writes'[Len(writes')].payload = old
             ELSE /\ buffer'[1] = old \o Append(m, NL)
                  /\ writes' = writes]_vars

\* C5: with maxBufferSize > 0 the buffer is never longer than maxBufferSize,
\* unless it holds exactly one message.
C5_BufferBound ==
  self[1].maxBufferSize > 0 =>
    \/ Len(buffer[1]) <= self[1].maxBufferSize
    \/ CountNL(buffer[1]) = 1

\* a message that alone exceeds the maximum is held in the buffer
C5_Witness ==
  /\ self[1].maxBufferSize > 0
  /\ Len(buffer[1]) > self[1].maxBufferSize
  /\ Len(writes) = 1

\* the close() calls made on the root client
RootCloses == {k \in 1..Len(closes) : closes[k].c = 1}

\* the writes whose payload holds characters of send call id
WritesOf(id) == {i \in 1..Len(writes) : id \in IdsIn(writes[i].payload)}

\* C3: every message accepted by enqueue is in a socket write issued before
\* the socket is closed, messages enqueued after close() was called included:
\* at the step that closes the socket every enqueued message has been written
\* whole.
C3_NoMessageDropped ==
  [][socketCloseCalls'[1] > socketCloseCalls[1] =>
       \A n \in 1..Len(enqueued') :
          \E i \in 1..Len(writes') : Contains(writes'[i].payload, enqueued'[n])]_vars

\* C4: every enqueued message is in at most one socket write, and a message
\* that was handed to a write is no longer in the buffer: a size flush, a
\* timer flush and the drain flush of close() never dispatch the same content.
C4_AtomicFlush ==
  \A id \in MsgIds :
     /\ Cardinality(WritesOf(id)) <= 1
     /\ WritesOf(id) # {} => id \notin IdsIn(buffer[1])

\* what the callback of a write has been invoked with, given the write's state
CallbackLogOf(st) ==
  CASE st = "pending" -> <<>>
    [] st = "ok"      -> <<"null">>
    [] OTHER          -> <<"err">>

\* no callback is invoked twice, none is invoked that was not given, and the
\* callback handed to a socket write is invoked when the write completes, with
\* its outcome
CallbackOnce ==
  /\ \A id \in MsgIds :
        /\ Len(cbLog[id]) <= 1
        /\ id \notin withCallback => cbLog[id] = <<>>
  /\ \A i \in 1..Len(writes) :
        writes[i].cb.kind = "user" =>
           cbLog[writes[i].cb.ref] = CallbackLogOf(writes[i].st)

\* the step issues one write, which carries the callback of send call id and
\* not its message
FlushCarriesCallback(id) ==
  /\ Len(writes') = Len(writes) + 1
  /\ LET w == writes'[Len(writes')]
     IN /\ w.cb = UserCb(id)
        /\ id \notin IdsIn(w.payload)
        /\ cbLog'[id] = CallbackLogOf(w.st)

\* the enqueue of the step fits without a flush
FitsNow == Len(buffer[1]) + Len(EnqueuedNow) <= self[1].maxBufferSize

\* C6 as stated: an enqueue given a callback invokes it exactly once: at once
\* with null when the message fits without a flush, before any write carries
\* it, and otherwise with the outcome of the write that flushes the content
\* buffered before, a write that does not contain the message.
C6_CallbackAsStated ==
  /\ []CallbackOnce
  /\ [][(EnqueueStep /\ nextId \in withCallback') =>
          IF FitsNow
          THEN cbLog'[nextId] = <<"null">> /\ writes' = writes
          ELSE FlushCarriesCallback(nextId)]_vars

\* C6 amended: as stated, except that an enqueue that needs a flush and finds
\* the buffer empty issues no write and invokes the callback at once with null.
C6_Callback ==
  /\ []CallbackOnce
  /\ [][(EnqueueStep /\ nextId \in withCallback') =>
          IF FitsNow \/ buffer[1] = <<>>
          THEN cbLog'[nextId] = <<"null">> /\ writes' = writes
          ELSE FlushCarriesCallback(nextId)]_vars

\* the first enqueue fitted and got null at once; the second needed a flush
\* and got the error of the write that carried the first message
C6_Witness ==
  /\ withCallback = {1, 2}
  /\ cbLog[1] = <<"null">> /\ cbLog[2] = <<"err">>
  /\ Len(writes) = 1 /\ writes[1].cb = UserCb(2) /\ writes[1].st = "err"
  /\ IdsIn(writes[1].payload) = {1}

\* C7: with maxBufferSize = 0, on a client that is no mock and has no cached
\* error, the n-th send issues the n-th socket write, which carries that one
\* message; the buffer is always empty and no flush timer is ever created.
C7_Unbuffered ==
  (self[1].maxBufferSize = 0 /\ ~self[1].mock /\ \A c \in created : ~dnsError[c]) =>
    /\ Len(writes) = nextId - 1
    /\ \A i \in 1..Len(writes) :
          \E len \in MsgLens :
             writes[i].payload \in {Msg(i, len), Append(Msg(i, len), NL)}
    /\ \A h \in ClientIds : buffer[h] = <<>>
    /\ flushTimer = {} /\ timersStarted = 0
    /\ \A c \in ClientIds : ~intervalHandle[c]

\* two sends on a TCP tree, one of them through a child, made two writes
C7_Witness ==
  /\ self[1].maxBufferSize = 0 /\ ~self[1].mock /\ self[1].protocol = "tcp"
  /\ Len(writes) = 2 /\ writes[1].by # writes[2].by
  /\ writes[2].payload = Append(Msg(2, 1), NL)

\* C8: a tree has at most one flush timer: only a root constructed with
\* maxBufferSize > 0 starts one, and no child at any depth does.
C8_SingleTimer ==
  /\ timersStarted = (IF self[1].maxBufferSize > 0 THEN 1 ELSE 0)
  /\ flushTimer \subseteq {1}
  /\ \A c \in ClientIds : intervalHandle[c] => ~self[c].isChild

\* a child and a child of that child exist in a buffered tree
C8_Witness ==
  /\ created = {1, 2, 3}
  /\ self[2].parent = 1 /\ self[3].parent = 2
  /\ self[1].maxBufferSize > 0
  /\ timersStarted = 1

\* the send calls of the step
SendStep == nextId' = nextId + 1

\* C9: a flush of an empty buffer issues no socket write, leaves the buffer
\* and the in-flight counters as they are, and completes its callback at once
\* with null: from an empty buffer no timer tick and no close() issues a write,
\* the drain callback of close() starts the polling at once, and an enqueue
\* that finds the buffer empty writes nothing and gets null at once.
C9_EmptyFlush ==
  [][buffer[1] = <<>> =>
       /\ ~SendStep => Len(writes') = Len(writes)
       /\ Len(closes') = Len(closes) + 1 =>
            /\ closes'[Len(closes')].phase = "polling"
            /\ messagesInFlight' = messagesInFlight
            /\ buffer' = buffer
       /\ EnqueueStep =>
            /\ writes' = writes
            /\ messagesInFlight' = messagesInFlight
            /\ nextId \in withCallback' => cbLog'[nextId] = <<"null">>]_vars

\* close() found the buffer empty and started polling without a write, then an
\* enqueue whose message alone overflows found it empty and got null
C9_Witness ==
  /\ self[1].maxBufferSize > 0 /\ ~self[1].mock
  /\ Len(closes) = 1 /\ closes[1].phase = "polling"
  /\ writes = <<>>
  /\ cbLog[1] = <<"null">> /\ Len(buffer[1]) > self[1].maxBufferSize

\* C10: once close() has been called on the root no timer-triggered flush
\* occurs: the flush timer is cancelled in close() before the drain flush.
C10_TimerCancelled ==
  RootCloses # {} =>
     /\ flushTimer = {}
     /\ \A c \in ClientIds : ~ENABLED TimerTick(c, FALSE)

\* the root of a buffered tree was closed with content in the buffer
C10_Witness ==
  /\ RootCloses # {}
  /\ timersStarted = 1
  /\ \E i \in 1..Len(writes) : writes[i].cb.kind = "drain"
\* the writes that carry the drain callback of close call k
DrainWrites(k) == {i \in 1..Len(writes) : writes[i].cb = DrainCb(k)}

\* the step is a call of close() on client c
CloseStep(c) == Len(closes') = Len(closes) + 1 /\ closes'[Len(closes')].c = c

\* C11: a close() on a non-mock client that finds the buffer non-empty hands
\* the whole buffer to the socket in one write, in the step of the call and
\* before any socket close; that close() call invokes its socket close only
\* in a poll, after the drain write has completed without error.
C11_DrainBeforeClose ==
  /\ [][\A c \in ClientIds :
          (CloseStep(c) /\ ~self[c].mock /\ buffer[self[c].bufferHolder] # <<>>) =>
             /\ Len(writes') = Len(writes) + 1
             /\ SubSeq(writes', 1, Len(writes)) = writes
             /\ writes'[Len(writes')].payload = buffer[self[c].bufferHolder]
             /\ writes'[Len(writes')].cb = DrainCb(Len(closes'))
             /\ buffer'[self[c].bufferHolder] = <<>>
             /\ socketCloseCalls' = socketCloseCalls]_vars
  /\ [][socketCloseCalls' # socketCloseCalls =>
          \E k \in 1..Len(closes) :
             closes[k].phase = "polling" /\ closes'[k].phase = "closed"]_vars
  /\ [](\A k \in 1..Len(closes) :
          /\ Cardinality(DrainWrites(k)) <= 1
          /\ closes[k].phase \in {"polling", "closed"} =>
               \A i \in DrainWrites(k) : writes[i].st = "ok")

\* a close() drained a non-empty buffer, the write completed, and a poll then
\* closed the socket
C11_Witness ==
  /\ Len(closes) = 1 /\ closes[1].phase = "closed"
  /\ \E i \in DrainWrites(1) : writes[i].st = "ok" /\ IdsIn(writes[i].payload) # {}
  /\ socketCloseCalls[1] = 1

\* the writes client c has issued whose completion handler has not run
Pending(c) == {i \in 1..Len(writes) : writes[i].by = c /\ writes[i].st = "pending"}

\* a poll of a close() on client c has given the counter up
Forced(c) ==
  \E k \in 1..Len(closes) : closes[k].c = c /\ Exceeded(closes[k].attempts)

\* C12 as stated: the in-flight counter of a client is the number of writes it
\* has issued whose completion handler has not run, and is never negative.
C12_InFlightAsStated ==
  \A c \in ClientIds :
     /\ messagesInFlight[c] = Cardinality(Pending(c))
     /\ messagesInFlight[c] >= 0

\* C12 amended: the counter of a client is the number of its outstanding
\* writes as long as no poll of close() has given it up; it changes by +1 with
\* a write that stays outstanding, by -1 in a completion handler, and is set to
\* zero by the poll after the tenth, after which it stays at or below the number
\* of outstanding writes and can be negative.
C12_InFlight ==
  /\ [](\A c \in ClientIds :
          /\ messagesInFlight[c] <= Cardinality(Pending(c))
          /\ ~Forced(c) => messagesInFlight[c] = Cardinality(Pending(c)))
  /\ [][\A c \in ClientIds :
          messagesInFlight'[c] # messagesInFlight[c] =>
             \/ /\ messagesInFlight'[c] = messagesInFlight[c] + 1
                /\ Len(writes') = Len(writes) + 1
                /\ writes'[Len(writes')].by = c
                /\ writes'[Len(writes')].st = "pending"
             \/ /\ messagesInFlight'[c] = messagesInFlight[c] - 1
                /\ \E i \in Pending(c) : writes'[i].st \in {"ok", "err"}
             \/ /\ messagesInFlight'[c] = 0
                /\ \E k \in 1..Len(closes) :
                      /\ closes[k].c = c
                      /\ ~Exceeded(closes[k].attempts)
                      /\ Exceeded(closes'[k].attempts)]_vars

\* the eleventh poll gave up the counter of a write that completed afterwards
C12_Witness ==
  \E c \in ClientIds :
     /\ Forced(c)
     /\ messagesInFlight[c] = -1
     /\ \E i \in 1..Len(writes) : writes[i].by = c /\ writes[i].st = "ok"

\* the step is a poll in which close call k invokes the socket close
ClosesSocket(k) ==
  k \in 1..Len(closes) /\ closes[k].phase = "polling" /\ closes'[k].phase = "closed"

\* C13: the counter polled by the root's close() covers the whole tree: when a
\* poll of the root's close() invokes the socket close without having given
\* the counter up, no write issued through any client of the tree is
\* outstanding.
C13_TreeCounter ==
  [][\A k \in 1..CloseCalls :
       (ClosesSocket(k) /\ closes[k].c = 1 /\ ~Exceeded(closes'[k].attempts)) =>
          \A i \in 1..Len(writes) : writes[i].st # "pending"]_vars

\* the step is a poll of close call k
PollStep(k) ==
  /\ k \in 1..Len(closes)
  /\ closes[k].phase = "polling"
  /\ closes'[k].attempts = closes[k].attempts + 1

\* the socket close of close call k is invoked in the step
InvokesClose(k) ==
  /\ closes'[k].phase = "closed"
  /\ self[closes[k].c].mock \/
       socketCloseCalls'[self[closes[k].c].socket] =
         socketCloseCalls[self[closes[k].c].socket] + 1

\* the step leaves close call k polling
KeepsPolling(k) ==
  /\ closes'[k].phase = "polling"
  /\ socketCloseCalls' = socketCloseCalls
  /\ messagesInFlight' = messagesInFlight

\* C14 as stated: a poll invokes the socket close when it finds the counter at
\* zero or is the tenth; close() never polls more than ten times.
C14_BoundedWaitAsStated ==
  /\ [](\A k \in 1..Len(closes) : closes[k].attempts <= MaxAttempts)
  /\ [][\A k \in 1..CloseCalls :
          PollStep(k) =>
             IF messagesInFlight[closes[k].c] <= 0
                \/ closes'[k].attempts >= MaxAttempts
             THEN InvokesClose(k) ELSE KeepsPolling(k)]_vars

\* C14 amended: a poll invokes the socket close when it finds the counter at
\* zero or is the eleventh, which sets the counter to zero; ten polls can find
\* the counter nonzero, and close() never polls more than eleven times.
C14_BoundedWait ==
  /\ [](\A k \in 1..Len(closes) : closes[k].attempts <= MaxAttempts + 1)
  /\ [][\A k \in 1..CloseCalls :
          PollStep(k) =>
             IF messagesInFlight[closes[k].c] <= 0
                \/ closes'[k].attempts > MaxAttempts
             THEN /\ InvokesClose(k)
                  /\ closes'[k].attempts > MaxAttempts =>
                       messagesInFlight'[closes[k].c] = 0
             ELSE KeepsPolling(k)]_vars

\* the eleventh poll closed the socket with a write still outstanding
C14_Witness ==
  /\ Len(closes) = 1 /\ closes[1].phase = "closed"
  /\ closes[1].attempts = MaxAttempts + 1
  /\ socketCloseCalls[1] = 1
  /\ Pending(closes[1].c) # {}

\* C15: every close() on a non-mock client eventually invokes the socket
\* close, whatever the outcome of the drain flush write and whether or not
\* the outstanding writes complete.
C15_ShutdownLiveness ==
  \A k \in 1..MaxCloses :
     [](Len(closes) >= k => <>(Len(closes) >= k /\ closes[k].phase = "closed"))

\* C16: close() called twice on a client invokes the close or destroy of its
\* socket at most once and reports a close error at most once.
C16_CloseIdempotent ==
  /\ \A s \in ClientIds : socketCloseCalls[s] <= 1
  /\ Cardinality({k \in 1..Len(closes) :
                    \E n \in 1..Len(closes[k].log) :
                       closes[k].log[n] \in {"closeErr", "handlerErr"}}) <= 1

\* C17: for one close() call the outcome is reported at most once: the close
\* callback, or without a callback the error handler, is invoked at most once,
\* in whatever order the 'error' event, the 'close' event and an exception of
\* the close or destroy call occur.
C17_ReportedOnce ==
  \A k \in 1..Len(closes) : Len(closes[k].log) <= 1

\* the step completes the drain write of close call k with an error
DrainFails(k) ==
  /\ k \in 1..Len(closes')
  /\ \E i \in 1..Len(writes') :
        /\ writes'[i].cb = DrainCb(k)
        /\ writes'[i].st \in {"err", "threw"}
        /\ i \in 1..Len(writes) => writes[i].st = "pending"

\* C18: when the drain flush write of close() fails, the error goes to the
\* close callback if one was given, otherwise to the configured error handler.
C18_DrainErrorReported ==
  [][\A k \in 1..MaxCloses :
       DrainFails(k) =>
          IF closes'[k].cb
          THEN closes'[k].log = <<"err">>
          ELSE self[closes'[k].c].errorHandler # 0 =>
                  errHandled' = errHandled + 1]_vars

\* the number of errors in a log of callback values
RECURSIVE CountErr(_)
CountErr(log) ==
  IF log = <<>> THEN 0
  ELSE (IF Head(log) = "err" THEN 1 ELSE 0) + CountErr(Tail(log))

\* the writes of sends and of timer flushes that fail in the step
NewlyFailed ==
  {i \in 1..Len(writes') :
     /\ writes'[i].st \in {"err", "threw", "uncaught"}
     /\ writes'[i].cb.kind # "drain"
     /\ i \in 1..Len(writes) => writes[i].st = "pending"}

\* write i has a callback of the caller to report to
CallerCallback(i) ==
  \/ writes'[i].cb.kind = "user"
  \/ writes'[i].cb.kind = "onSend" /\ batches'[writes'[i].cb.ref].cb

\* the errors array call b has reported to the caller's callback before the step
ReportedBefore(b) == IF b <= Len(batches) THEN CountErr(batches[b].log) ELSE 0

\* C19: every failed socket write of a single send, of an array send and of a
\* timer flush is reported exactly once, through one channel: the caller's
\* callback if there is one, else the errorHandler of the client, else an
\* 'error' event emitted on the socket.
C19_OneChannel ==
  [][NewlyFailed # {} =>
       /\ \A id \in MsgIds :
             CountErr(cbLog'[id]) - CountErr(cbLog[id]) =
               Cardinality({i \in NewlyFailed : writes'[i].cb = UserCb(id)})
       /\ \A b \in 1..Len(batches') :
             CountErr(batches'[b].log) - ReportedBefore(b) =
               Cardinality({i \in NewlyFailed :
                              writes'[i].cb = OnSendCb(b) /\ batches'[b].cb})
       /\ errHandled' - errHandled =
            Cardinality({i \in NewlyFailed :
                           ~CallerCallback(i) /\ self[writes'[i].by].errorHandler # 0})
       /\ errEmitted' - errEmitted =
            Cardinality({i \in NewlyFailed :
                           ~CallerCallback(i) /\ self[writes'[i].by].errorHandler = 0})]_vars

\* the step reports the cached error of client c once: to the callback of send
\* call id if there is one, else to the errorHandler, else by throwing
ReportsDnsError(c, id, withCb) ==
  IF withCb
  THEN cbLog' = [cbLog EXCEPT ![id] = <<"dns">>]
       /\ errHandled' = errHandled /\ thrown' = thrown
  ELSE IF self[c].errorHandler # 0
  THEN errHandled' = errHandled + 1 /\ cbLog' = cbLog /\ thrown' = thrown
  ELSE thrown' = thrown + 1 /\ cbLog' = cbLog /\ errHandled' = errHandled

\* the step touches neither buffer, mock record, in-flight counter nor socket
LeavesTransport ==
  /\ buffer' = buffer
  /\ mockBuffer' = mockBuffer
  /\ messagesInFlight' = messagesInFlight
  /\ writes' = writes
  /\ enqueued' = enqueued

\* C20: a send on a client with a cached dnsError reports that error, to the
\* callback if given, else to the errorHandler, else by throwing it, and leaves
\* the buffer, the mock record and the in-flight counter unchanged with no
\* socket write; each stat of an array send reports it to its callback onSend.
C20_DnsShortCircuit ==
  [][/\ \A c \in 1..FlowClients, len \in MsgLens, withCb \in BOOLEAN, throws \in BOOLEAN :
          (dnsError[c] /\ Send(c, len, withCb, throws)) =>
             ReportsDnsError(c, nextId, withCb) /\ LeavesTransport
     /\ \A c \in 1..FlowClients, lens \in [1..BatchLen -> MsgLens],
           withCb \in BOOLEAN, throws \in [1..BatchLen -> BOOLEAN] :
          (dnsError[c] /\ SendAll(c, lens, withCb, throws)) =>
             /\ batches'[Len(batches')].completed = BatchLen
             /\ LeavesTransport /\ cbLog' = cbLog /\ thrown' = thrown]_vars

\* after a failed lookup one send told its callback the error and one, with
\* neither callback nor errorHandler, threw it; nothing was written
C20_Witness ==
  /\ dnsError[1] /\ self[1].errorHandler = 0 /\ ~self[1].mock
  /\ nextId = 3
  /\ cbLog[1] = <<"dns">> /\ cbLog[2] = <<>>
  /\ thrown = 1
  /\ writes = <<>> /\ buffer[1] = <<>> /\ messagesInFlight[1] = 0

\* the step issues one socket write
WriteStep == Len(writes') = Len(writes) + 1

\* the socket write of the step
WrittenNow == writes'[Len(writes')]

\* C21: while a client has a cached dnsError no operation of that client
\* issues a socket write: no send, no timer flush and no drain flush of
\* close(), whatever was buffered before the error was recorded.
C21_NoSocketTouch ==
  \A i \in 1..Len(writes) : ~writes[i].dns

\* the step is the construction of client c
Creates(c) == c \notin created /\ c \in created'

\* the send of the step is taken by the transport of its client: buffered, or
\* written when the client does not buffer
Accepted ==
  /\ IF self[1].maxBufferSize > 0
     THEN EnqueueStep /\ IdsIn(EnqueuedNow) = {nextId}
     ELSE WriteStep /\ IdsIn(WrittenNow.payload) = {nextId}
  /\ errHandled' = errHandled /\ thrown' = thrown
  /\ \A n \in 1..Len(cbLog'[nextId]) : cbLog'[nextId][n] # "dns"

\* C22: the dnsError of a child is the dnsError its parent had when the child
\* was created and never changes afterwards, whatever the root's lookup
\* reports later: a child created before the failure has its sends accepted,
\* a child created after it short-circuits every send.
C22_ChildDnsErrorFixed ==
  [][\A c \in ClientIds :
       /\ Creates(c) => dnsError'[c] = dnsError[self'[c].parent]
       /\ (c \in created /\ self[c].isChild) =>
            /\ dnsError'[c] = dnsError[c]
            /\ \A len \in MsgLens, withCb \in BOOLEAN :
                  Send(c, len, withCb, FALSE) =>
                     IF dnsError[c]
                     THEN ReportsDnsError(c, nextId, withCb) /\ LeavesTransport
                     ELSE Accepted]_vars

\* the lookup failed after the child was created: the send of the root was
\* short-circuited and the next send, which only the child can have made, was
\* accepted
C22_Witness ==
  /\ created = {1, 2}
  /\ dnsError[1] /\ ~dnsError[2]
  /\ cbLog[1] = <<"dns">>
  /\ nextId = 3
  /\ \E n \in 1..Len(enqueued) : IdsIn(enqueued[n]) = {2}

\* the number of messages in the mock records of the clients from c on
RECURSIVE Recorded(_)
Recorded(c) ==
  IF c > MaxClients THEN 0 ELSE Len(mockBuffer[c]) + Recorded(c + 1)

\* C23: a mock client and its children perform no socket I/O and report no
\* error: every call records its message in the mock record and completes
\* its callback, if it has one, exactly once with (null, 0), and close()
\* completes with callback(null) without touching a socket.
C23_MockNoIO ==
  self[1].mock =>
    /\ \A c \in created : self[c].mock /\ self[c].socket = 0
    /\ writes = <<>>
    /\ \A s \in ClientIds : socketCloseCalls[s] = 0
    /\ \A c \in ClientIds : messagesInFlight[c] = 0
    /\ errHandled = 0 /\ errEmitted = 0 /\ thrown = 0
    /\ Recorded(1) = nextId - 1
    /\ \A id \in 1..nextId - 1 :
          cbLog[id] = IF id \in withCallback THEN <<"zero">> ELSE <<>>
    /\ \A k \in 1..Len(closes) :
          /\ closes[k].phase \in {"polling", "closed"}
          /\ closes[k].log =
               IF closes[k].phase = "closed" /\ closes[k].cb THEN <<"null">> ELSE <<>>

\* the buffer client c observes: this.bufferHolder.buffer
BufferOf(c) == buffer[self[c].bufferHolder]

\* C24: a root and all its descendants, children of children included, have
\* one buffer holder and one socket: a message enqueued through any client is
\* at the end of the buffer every client of the tree observes, and a flush
\* triggered through any client empties the buffer for all of them.
C24_SharedBuffer ==
  /\ [](\A c \in created :
          /\ self[c].bufferHolder = self[1].bufferHolder
          /\ self[c].socket = self[1].socket)
  /\ [][/\ EnqueueStep =>
            \A c \in created :
               /\ Len(BufferOf(c)') >= Len(EnqueuedNow)
               /\ SubSeq(BufferOf(c)', Len(BufferOf(c)') - Len(EnqueuedNow) + 1,
                         Len(BufferOf(c)')) = EnqueuedNow
               /\ WriteStep => BufferOf(c)' = EnqueuedNow
        /\ (WriteStep /\ ~SendStep) => \A c \in created : BufferOf(c)' = <<>>]_vars

\* the enqueue of a child of a child flushed the first message, and the
\* root's timer flushed the message that enqueue left in the buffer
C24_Witness ==
  /\ created = {1, 2, 3} /\ self[2].parent = 1 /\ self[3].parent = 2
  /\ nextId = 3 /\ Len(writes) = 2
  /\ writes[1].by = 3 /\ IdsIn(writes[1].payload) = {1}
  /\ writes[2].by = 1 /\ writes[2].cb.kind = "none"
  /\ IdsIn(writes[2].payload) = {2}
  /\ buffer[1] = <<>>

\* C25: the socket belongs to the root: the close or destroy of the shared
\* socket is invoked only by a close() made on the root client, never by an
\* operation on a child, child.close() included.
C25_RootOwnsSocket ==
  [][socketCloseCalls' # socketCloseCalls =>
       \E k \in 1..Len(closes) : ClosesSocket(k) /\ ~self[closes[k].c].isChild]_vars

\* the metric lines an unbuffered or mock client c has emitted
LinesOf(c) ==
  {mockBuffer[c][n] : n \in 1..Len(mockBuffer[c])}
    \cup {writes[i].payload : i \in {j \in 1..Len(writes) : writes[j].by = c}}

\* the children among the clients
Children == {c \in created : self[c].isChild}

\* C26 as stated: every metric line emitted by a child starts with the prefix
\* of its parent followed by the child's own prefix: "app.svc." for a child
\* created with "svc." from a parent with "app.".
C26_ChildNamingAsStated ==
  \A c \in Children : \A line \in LinesOf(c) :
     IsPrefix(self[self[c].parent].prefix \o self[c].ownPrefix, line)

\* C26 amended: every metric line emitted by a child starts with the child's
\* own prefix followed by the prefix of its parent, and the stat name follows:
\* "svc.app." for a child created with "svc." from a parent with "app.".
C26_ChildNaming ==
  \A c \in Children : \A line \in LinesOf(c) :
     LET pre == self[c].ownPrefix \o self[self[c].parent].prefix
     IN /\ IsPrefix(pre, line)
        /\ Len(line) > Len(pre)
        /\ line[Len(pre) + 1] \in MsgIds

\* a child created with "s." from a root with "a." wrote a line "s.a.1..."
C26_Witness ==
  /\ ~self[1].mock /\ self[1].prefix = <<120, Dot>>
  /\ 2 \in Children /\ self[2].ownPrefix = <<121, Dot>>
  /\ \E i \in 1..Len(writes) :
        writes[i].by = 2 /\ IsPrefix(<<121, Dot, 120, Dot, i>>, writes[i].payload)

\* C27: the prefix of a child is its own prefix followed by the accumulated
\* prefix of its parent, and its suffix the accumulated suffix of its parent
\* followed by its own suffix, at every depth; a prefix or suffix missing from
\* the options counts as empty.
C27_AffixComposition ==
  /\ self[1].prefix = self[1].ownPrefix /\ self[1].suffix = self[1].ownSuffix
  /\ \A c \in Children :
        /\ self[c].prefix = self[c].ownPrefix \o self[self[c].parent].prefix
        /\ self[c].suffix = self[self[c].parent].suffix \o self[c].ownSuffix

\* a child of a child: "a." and ".x" at the root, "s." and ".y" at the child,
\* no prefix and ".y" at the child's child
C27_Witness ==
  /\ created = {1, 2, 3} /\ self[2].parent = 1 /\ self[3].parent = 2
  /\ self[1].ownPrefix = <<120, Dot>> /\ self[1].ownSuffix = <<Dot, 122>>
  /\ self[2].ownPrefix = <<121, Dot>> /\ self[2].ownSuffix = <<Dot, 123>>
  /\ self[3].ownPrefix = <<>> /\ self[3].ownSuffix = <<Dot, 123>>
  /\ self[3].prefix = <<121, Dot, 120, Dot>>
  /\ self[3].suffix = <<Dot, 122, Dot, 123, Dot, 123>>

IsSuffix(s, t) == Len(s) <= Len(t) /\ SubSeq(t, Len(t) - Len(s) + 1, Len(t)) = s

\* the step hands one line to the transport of client c: to the mock record,
\* to the buffer, or to the socket when the client does not buffer
Emits(c) ==
  IF self[c].mock THEN Len(mockBuffer'[c]) = Len(mockBuffer[c]) + 1
  ELSE IF self[c].maxBufferSize > 0 THEN EnqueueStep
  ELSE WriteStep

\* that line
EmittedNow(c) ==
  IF self[c].mock THEN mockBuffer'[c][Len(mockBuffer'[c])]
  ELSE IF self[c].maxBufferSize > 0 THEN SubSeq(EnqueuedNow, 1, Len(EnqueuedNow) - 1)
  ELSE WrittenNow.payload

\* the step changes nothing but the count of calls and, for a call with a
\* callback, the record of that callback, which is called with no argument
SkipsCall(withCb) ==
  /\ LeavesTransport
  /\ cbLog' = IF withCb THEN [cbLog EXCEPT ![nextId] = <<"undefined">>] ELSE cbLog
  /\ UNCHANGED <<created, self, dnsError, dnsPending, intervalHandle, flushTimer,
                 timersStarted, closes, socketCloseCalls, sockState, sockErrors,
                 errorListener, batches, errHandled, errEmitted, thrown>>

\* C28: a stat call with effective rate r, the rate of the call if it is a
\* number and the default of the client otherwise: with r >= 1 the line has no
\* |@ field; with r < 1 and a draw below r the line is sent and ends with |@r;
\* with r < 1 and a draw not below r nothing is buffered, recorded or written,
\* no state changes, and the callback is called once, with no argument.
C28_Sampling ==
  [][\A c \in 1..FlowClients, rate \in OptionalRates, draw \in Draws, withCb \in BOOLEAN :
       SendStat(c, 1, rate, draw, withCb, FALSE) =>
          LET r == IF rate.isNumber THEN rate.value ELSE self[c].sampleRate
          IN IF r >= One
             THEN Emits(c) /\ \A n \in 1..Len(EmittedNow(c)) : EmittedNow(c)[n] # At
             ELSE IF draw < r
             THEN Emits(c) /\ IsSuffix(<<Bar, At>> \o NumToString(r), EmittedNow(c))
             ELSE SkipsCall(withCb)]_vars

\* on a mock client with default rate 0.5 one call was recorded with |@0.5 and
\* the next lost the draw: its callback was called with no argument
C28_Witness ==
  /\ self[1].mock /\ self[1].sampleRate = 5
  /\ nextId = 3
  /\ Len(mockBuffer[1]) = 1
  /\ IsSuffix(<<Bar, At, Digit(0), Dot, Digit(5)>>, mockBuffer[1][1])
  /\ cbLog[2] = <<"undefined">>

\* the step reports the not-supported error once: to the callback argument of
\* call id if there is one, else to the errorHandler of client c, else by
\* throwing
ReportsNotSupported(c, id, cbPos) ==
  IF cbPos = "callback"
  THEN cbLog' = [cbLog EXCEPT ![id] = <<"unsupported">>]
       /\ errHandled' = errHandled /\ thrown' = thrown
  ELSE IF self[c].errorHandler # 0
  THEN errHandled' = errHandled + 1 /\ cbLog' = cbLog /\ thrown' = thrown
  ELSE thrown' = thrown + 1 /\ cbLog' = cbLog /\ errHandled' = errHandled

\* C29: under telegraf event() and check() send nothing, with no buffer
\* append, no socket write and no mock record, and report the not-supported
\* error through one channel: the callback argument if given, else the
\* errorHandler, else a synchronous throw.
C29_TelegrafUnsupported ==
  [][\A c \in 1..FlowClients, cbPos \in CallbackPositions :
       (self[c].telegraf /\ (Event(c, 1, cbPos, FALSE) \/ Check(c, 1, cbPos, FALSE))) =>
          /\ LeavesTransport
          /\ errEmitted' = errEmitted
          /\ ReportsNotSupported(c, nextId, cbPos)]_vars

\* on a telegraf root without errorHandler one call told its callback the
\* error and one without callback threw it; a child with an errorHandler of
\* its own exists
C29_Witness ==
  /\ self[1].telegraf /\ self[1].errorHandler = 0
  /\ nextId = 3
  /\ cbLog[1] = <<"unsupported">> /\ cbLog[2] = <<>>
  /\ thrown = 1 /\ errHandled = 0
  /\ writes = <<>> /\ enqueued = <<>> /\ \A c \in ClientIds : mockBuffer[c] = <<>>

\* C30: once the close or destroy of a tree's socket has been invoked, no
\* client of the tree hands that socket a further write, whatever sends,
\* enqueues and timer ticks follow.
C30_NoWriteAfterClose ==
  [][WriteStep => socketCloseCalls[self[WrittenNow.by].socket] = 0]_vars

\* the stats of array call b that have completed: sent, failed or skipped
\* by sampling
AllCompleted(b) == batches[b].completed = batches[b].n

\* C31: an array call that was given a callback invokes it at most once, with
\* the first error or with null, and has invoked it once every stat of the
\* array has completed, whatever the length of the array.
C31_ArrayCallbackOnce ==
  \A b \in 1..Len(batches) :
     batches[b].cb =>
        /\ Len(batches[b].log) <= 1
        /\ AllCompleted(b) => Len(batches[b].log) = 1

\* C32: a payload written on a TCP socket ends with the terminator; it is the
\* message itself when the message ends with the terminator and the message
\* with one terminator added when it does not; a payload of a UDP or of a
\* unix_dgram socket is the message as given.
C32_TcpTerminator ==
  \A i \in 1..Len(writes) :
     LET w    == writes[i]
         m    == w.message
         last == m[Len(m)]
     IN IF self[w.by].protocol = "tcp"
        THEN /\ w.payload[Len(w.payload)] = NL
             /\ w.payload = IF last = NL THEN m ELSE m \o <<NL>>
        ELSE w.payload = m

\* an unbuffered TCP client has written a line that had no terminator, with
\* one added, and a line that ended with one, as it was
C32_Witness ==
  /\ self[1].protocol = "tcp" /\ self[1].maxBufferSize = 0
  /\ Len(writes) = 2
  /\ writes[1].message = <<1>> /\ writes[1].payload = <<1, NL>>
  /\ writes[2].message = <<2, NL>> /\ writes[2].payload = <<2, NL>>

\* the terminated messages that enqueue appended for the metric calls made by
\* callbacks
NestedEnqueued ==
  {enqueued[n] : n \in {k \in 1..Len(enqueued) :
                          \E id \in MsgIds : MaxMsgs + id \in IdsIn(enqueued[k])}}

\* the socket calls whose payload holds characters of message m
Dispatches(m) == {i \in 1..Len(writes) : IdsIn(m) \cap IdsIn(writes[i].payload) # {}}

\* C33: a message that a callback enqueued is in the shared buffer or in the
\* payload of a socket call once the call of the library has returned, and no
\* enqueued message is handed to the socket twice.
C33_ReentrantFlush ==
  /\ \A m \in NestedEnqueued :
        \/ Contains(buffer[self[1].bufferHolder], m)
        \/ \E i \in 1..Len(writes) : Contains(writes[i].payload, m)
  /\ \A n \in 1..Len(enqueued) : Cardinality(Dispatches(enqueued[n])) <= 1
====
